---- MODULE Spec2Model ----
(***************************************************************************)
(* Model of src/autopoiesis-simulacao.py: the particle registry, the       *)
(* physics space, the deferred removal list and the phases of one pass of  *)
(* the main loop of AutopoiesisSimulation.run.                             *)
(*                                                                         *)
(* A particle is an identifier; its shape, body and sensor carry the same  *)
(* identifier, so "p.shape == shape" is equality of identifiers.           *)
(* Positions are pairs <<x, y>> of integers in window coordinates.         *)
(* A joint is the set of its two end particles.  The lists self.bonds and  *)
(* Particle.connections are bags: the program appends to them, removes     *)
(* from them, tests membership and takes their length, and never reads     *)
(* the order of their elements.                                            *)
(***************************************************************************)
EXTENDS Integers, Naturals, Sequences, FiniteSets, Bags, TLC

(* ---------------------------------------------------------------- bounds *)

\* Substrates created by setup_simulation (300 in the source).
NumSubstrate == 2
\* Passes of the main loop explored.
MaxTicks == 2
\* Changes of a body's position by the physics steps of a run.
MaxMoves == 1
\* Particle objects constructed after setup_simulation.
MaxCreated == 3

(* ------------------------------------------------------ program constants *)

SUBSTRATE == "SUBSTRATE"
CATALYST  == "CATALYST"
LINK      == "LINK"
\* None in the shape place and in the bond place of a to_remove entry.
None      == 0
NoBond    == {}

Width  == 800
Height == 800
Center == <<Width \div 2, Height \div 2>>

BoundaryRadius   == 200
ReactionDistance == 40
DisintegrationAge == 2 * 500
SpawnOffset      == 10

Radius(t) == IF t # CATALYST THEN 8 ELSE 12
MaxConnections(t) == IF t = LINK THEN 2 ELSE 0

(* ------------------------------------------------------------- geometry *)

RECURSIVE SqrtSearch(_, _, _)
SqrtSearch(n, lo, hi) ==
    IF lo >= hi THEN lo
    ELSE LET mid == (lo + hi + 1) \div 2
         IN  IF mid * mid <= n THEN SqrtSearch(n, mid, hi)
                               ELSE SqrtSearch(n, lo, mid - 1)

\* floor of the square root: for an integer k, sqrt(n) < k iff ISqrt(n) < k
\* and sqrt(n) >= k iff ISqrt(n) >= k.
ISqrt(n) == SqrtSearch(n, 0, 1024)

\* The square of the distance.
distance2(pos1, pos2) ==
    (pos1[1] - pos2[1]) * (pos1[1] - pos2[1])
    + (pos1[2] - pos2[2]) * (pos1[2] - pos2[2])

distance(pos1, pos2) == ISqrt(distance2(pos1, pos2))

Midpoint(a, b) == <<(a[1] + b[1]) \div 2, (a[2] + b[2]) \div 2>>

\* Radial, were the clamp to put the particle's centre on the membrane.
Radial_to_membrane(pos, len) ==
    LET d == distance(Center, pos)
    IN  <<Center[1] + ((pos[1] - Center[1]) * BoundaryRadius) \div d,
          Center[2] + ((pos[2] - Center[2]) * BoundaryRadius) \div d>>

\* center + normalized(pos - center) * len
Radial(pos, len) ==
    LET d == distance(Center, pos)
    IN  <<Center[1] + ((pos[1] - Center[1]) * len) \div d,
          Center[2] + ((pos[2] - Center[2]) * len) \div d>>

Neg(v) == <<0 - v[1], 0 - v[2]>>

(* ------------------------------------------------------- sequence helpers *)

Range(s) == {s[i] : i \in 1..Len(s)}

RECURSIVE RemoveFirst(_, _)
RemoveFirst(s, x) ==
    IF s = <<>> THEN <<>>
    ELSE IF Head(s) = x THEN Tail(s)
    ELSE <<Head(s)>> \o RemoveFirst(Tail(s), x)

(* ---------------------------------------------------------------- state *)

VARIABLES
    particles,          \* self.particles: sequence of particle ids
    ptype,              \* id -> Particle.type
    position,           \* id -> body.position          (these four are
    velocity,           \* id -> body.velocity           defined for the
    age,                \* id -> Particle.age            particles that
    connections,        \* id -> Particle.connections    still exist)
    space_bodies,       \* ids whose body and shape are in self.space
    space_sensors,      \* ids whose sensor shape is in self.space
    space_constraints,  \* the DampedSpring joints in self.space (bag)
    bonds,              \* self.bonds (bag of joints)
    to_remove,          \* self.to_remove: sequence of <<shape, bond>>
    stats,              \* self.stats
    pc,                 \* the statement of run's loop body that runs next
    tick,               \* passes of the loop completed
    separated,          \* substrate shapes whose separate callback ran in this step
    moved,              \* changes of position made by the physics steps
    created,            \* Particle objects constructed after setup
    removed_calls,      \* id -> number of space.remove calls on its shape and body
    hist                \* history of the current pass (see NewHist)

vars == <<particles, ptype, position, velocity, age, connections, space_bodies,
          space_sensors, space_constraints, bonds, to_remove, stats, pc, tick,
          separated, moved, created, removed_calls, hist>>

Ids == DOMAIN ptype
NextId == Cardinality(Ids) + 1

Registry == Range(particles)
OfType(t) == {p \in Registry : ptype[p] = t}

\* The joints of the bag js that have particle p as an endpoint.
JointsOf(js, p) == {j \in BagToSet(js) : p \in j}

\* list.remove(x) on a bag.
BagRemove(b, x) == b (-) SetToBag({x})

\* History of one pass of the loop: the registry at its start, the number of
\* reaction firings, the LINK particles disintegrated, and the bonds and the
\* connections as handle_disintegration found them.
NewHist(reg, ty) ==
    [substrates0 |-> Cardinality({p \in Range(reg) : ty[p] = SUBSTRATE}),
     links0      |-> Cardinality({p \in Range(reg) : ty[p] = LINK}),
     firings     |-> 0,
     disintegrated |-> {},
     bonds1      |-> 0,
     connections1 |-> 0]

(* ----------------------------------------------------- Particle.__init__ *)

\* Particle(x, y, space, particle_type): the fields of the new object and
\* the shapes it adds to the space.  st is a record of the variables that
\* construction touches.
NewParticle(st, pos, t) ==
    LET id == Cardinality(DOMAIN st.ptype) + 1
    IN  [st EXCEPT
           !.ptype         = @ @@ (id :> t),
           !.position      = @ @@ (id :> pos),
           !.velocity      = @ @@ (id :> <<0, 0>>),
           !.age           = @ @@ (id :> 0),
           !.connections   = @ @@ (id :> EmptyBag),
           !.removed_calls = @ @@ (id :> 0),
           !.space_sensors = IF t = LINK THEN @ \cup {id} ELSE @,
           !.space_bodies  = @ \cup {id}]

\* The program state as a record, and back.
State ==
    [particles |-> particles, ptype |-> ptype, position |-> position,
     velocity |-> velocity, age |-> age, connections |-> connections,
     space_bodies |-> space_bodies, space_sensors |-> space_sensors,
     space_constraints |-> space_constraints, bonds |-> bonds,
     to_remove |-> to_remove, removed_calls |-> removed_calls]

Becomes(st) ==
    /\ particles' = st.particles
    /\ ptype' = st.ptype
    /\ position' = st.position
    /\ velocity' = st.velocity
    /\ age' = st.age
    /\ connections' = st.connections
    /\ space_bodies' = st.space_bodies
    /\ space_sensors' = st.space_sensors
    /\ space_constraints' = st.space_constraints
    /\ bonds' = st.bonds
    /\ to_remove' = st.to_remove
    /\ removed_calls' = st.removed_calls

EmptyState ==
    [particles |-> <<>>, ptype |-> <<>>, position |-> <<>>, velocity |-> <<>>,
     age |-> <<>>, connections |-> <<>>, space_bodies |-> {},
     space_sensors |-> {}, space_constraints |-> EmptyBag, bonds |-> EmptyBag,
     to_remove |-> <<>>, removed_calls |-> <<>>]

\* self.particles.append(Particle(...))
AddParticle(st, pos, t) ==
    LET st1 == NewParticle(st, pos, t)
    IN  [st1 EXCEPT !.particles = Append(@, Cardinality(DOMAIN st.ptype) + 1)]

(* ------------------------------------------------------------ operations *)

create_link(st, pos) == AddParticle(st, pos, LINK)

create_bond(st, p1, p2) ==
    [st EXCEPT
       !.space_constraints = @ (+) SetToBag({{p1, p2}}),
       !.bonds             = @ (+) SetToBag({{p1, p2}}),
       !.connections       = [@ EXCEPT ![p1] = @ (+) SetToBag({p2}),
                                       ![p2] = @ (+) SetToBag({p1})]]

\* nearby_substrates without the test p.shape != substrate_shape.
nearby_substrates_with_self(st, substrate_shape) ==
    {p \in Range(st.particles) :
        /\ st.ptype[p] = SUBSTRATE
        /\ distance(st.position[substrate_shape], st.position[p]) < ReactionDistance}

\* The list comprehension of handle_catalyst_substrate.
nearby_substrates(st, substrate_shape) ==
    {p \in Range(st.particles) :
        /\ st.ptype[p] = SUBSTRATE
        /\ p # substrate_shape
        /\ distance(st.position[substrate_shape], st.position[p]) < ReactionDistance}

\* react, were it to take the second substrate out of the registry at once.
react_eager(st, substrate_shape, second_substrate) ==
    LET pos == Midpoint(st.position[substrate_shape], st.position[second_substrate])
        st1 == create_link(st, pos)
        st2 == [st1 EXCEPT !.to_remove = Append(@, <<substrate_shape, NoBond>>)]
    IN  [st2 EXCEPT !.particles = RemoveFirst(@, second_substrate),
                    !.space_bodies = @ \ {second_substrate}]

\* The body of "if nearby_substrates:" with second_substrate the random choice.
react(st, substrate_shape, second_substrate) ==
    LET pos == Midpoint(st.position[substrate_shape], st.position[second_substrate])
        st1 == create_link(st, pos)
    IN  [st1 EXCEPT !.to_remove =
            @ \o << <<substrate_shape, NoBond>>, <<second_substrate, NoBond>> >>]

\* can_bond without the test of p2's connection count.
can_bond_p1_only(st, p1, p2) ==
    /\ p1 # p2
    /\ BagCardinality(st.connections[p1]) < MaxConnections(st.ptype[p1])
    /\ ~BagIn(p2, st.connections[p1])

\* can_bond without the membership test.
can_bond_again(st, p1, p2) ==
    /\ p1 # p2
    /\ BagCardinality(st.connections[p1]) < MaxConnections(st.ptype[p1])
    /\ BagCardinality(st.connections[p2]) < MaxConnections(st.ptype[p2])

\* The condition under which handle_link_detection bonds p1 and p2.
can_bond(st, p1, p2) ==
    /\ p1 # p2
    /\ BagCardinality(st.connections[p1]) < MaxConnections(st.ptype[p1])
    /\ BagCardinality(st.connections[p2]) < MaxConnections(st.ptype[p2])
    /\ ~BagIn(p2, st.connections[p1])

\* handle_link_detection with no test but p1 != p2.
handle_link_detection_unguarded(st, link_sensor, link_shape) ==
    LET p1_candidates == SelectSeq(st.particles,
                             LAMBDA p : st.ptype[p] = LINK /\ p = link_sensor)
        p2_candidates == SelectSeq(st.particles, LAMBDA p : p = link_shape)
    IN  IF p1_candidates # <<>> /\ p2_candidates # <<>>
            /\ p1_candidates[1] # p2_candidates[1]
        THEN create_bond(st, p1_candidates[1], p2_candidates[1])
        ELSE st

handle_link_detection(st, link_sensor, link_shape) ==
    LET p1_candidates == SelectSeq(st.particles,
                             LAMBDA p : st.ptype[p] = LINK /\ p = link_sensor)
        p2_candidates == SelectSeq(st.particles, LAMBDA p : p = link_shape)
    IN  IF p1_candidates # <<>> /\ p2_candidates # <<>>
            /\ can_bond(st, p1_candidates[1], p2_candidates[1])
        THEN create_bond(st, p1_candidates[1], p2_candidates[1])
        ELSE st

\* unlink, were the neighbours' connections left alone.
unlink_nothing(conn, particle) == conn

\* for connected in particle.connections: connected.connections.remove(particle)
unlink(conn, particle) ==
    [q \in DOMAIN conn |->
        IF BagIn(q, conn[particle])
        THEN conn[q] (-) (particle :> CopiesIn(q, conn[particle]))
        ELSE conn[q]]

\* The body of the roll's "if" in handle_disintegration.
disintegrate(st, particle) ==
    LET st1 == [st EXCEPT !.connections = unlink(@, particle)]
        pos == st.position[particle]
        st2 == NewParticle(st1, <<pos[1] + SpawnOffset, pos[2]>>, SUBSTRATE)
        st3 == NewParticle(st2, <<pos[1] - SpawnOffset, pos[2]>>, SUBSTRATE)
    IN  [st3 EXCEPT !.to_remove = Append(@, <<particle, NoBond>>)]

\* old_enough without the age threshold.
old_enough_any(a) == a > 0

\* Whether a LINK of this (already incremented) age may disintegrate.
old_enough(a) == a > DisintegrationAge

RECURSIVE disintegration_loop(_, _, _)
\* for particle in list(self.particles); rolls: the particles whose
\* random.random() < 0.01 comes out true.
disintegration_loop(st, todo, rolls) ==
    IF todo = <<>> THEN st
    ELSE LET particle == Head(todo)
             st1 == [st EXCEPT !.age[particle] = @ + 1]
         IN  IF st.ptype[particle] # LINK
             THEN disintegration_loop(st, Tail(todo), rolls)
             ELSE IF old_enough(st1.age[particle]) /\ particle \in rolls
             THEN disintegration_loop(disintegrate(st1, particle), Tail(todo), rolls)
             ELSE disintegration_loop(st1, Tail(todo), rolls)

\* Whether handle_boundary_collision corrects a particle at pos.
outside(pos, t) == distance(Center, pos) >= BoundaryRadius - Radius(t)

RECURSIVE boundary_loop(_, _)
boundary_loop(st, todo) ==
    IF todo = <<>> THEN st
    ELSE LET particle == Head(todo)
         IN  IF outside(st.position[particle], st.ptype[particle])
             THEN boundary_loop(
                    [st EXCEPT
                       !.position[particle] =
                           Radial(@, BoundaryRadius - Radius(st.ptype[particle])),
                       !.velocity[particle] = Neg(@)],
                    Tail(todo))
             ELSE boundary_loop(st, Tail(todo))

\* f without the entry of p.
Drop(f, p) == [q \in DOMAIN f \ {p} |-> f[q]]

\* The registry held the last reference to the Particle: its fields go with it.
Forget(st, p) ==
    [st EXCEPT !.position = Drop(@, p), !.velocity = Drop(@, p),
               !.age = Drop(@, p), !.connections = Drop(@, p)]

\* remove_particle without the lookup in the registry.
remove_particle_unchecked(st, shape) ==
    [st EXCEPT
        !.space_sensors = IF st.ptype[shape] = LINK THEN @ \ {shape} ELSE @,
        !.space_bodies  = @ \ {shape},
        !.removed_calls[shape] = @ + 1,
        !.particles     = RemoveFirst(@, shape)]

remove_particle(st, shape) ==
    IF shape \in Range(st.particles)
    THEN Forget([st EXCEPT
            !.space_sensors = IF st.ptype[shape] = LINK THEN @ \ {shape} ELSE @,
            !.space_bodies  = @ \ {shape},
            !.removed_calls[shape] = @ + 1,
            !.particles     = RemoveFirst(@, shape)], shape)
    ELSE st     \* StopIteration: the warning is printed

RECURSIVE flush_loop_abort(_, _)
\* flush_loop, were a shape that is not in the registry to end the loop.
flush_loop_abort(st, todo) ==
    IF todo = <<>> THEN st
    ELSE LET shape == Head(todo)[1]
             bond  == Head(todo)[2]
             st1 == IF shape # None THEN remove_particle(st, shape) ELSE st
             st2 == IF bond # NoBond
                    THEN [st1 EXCEPT !.space_constraints = BagRemove(@, bond),
                                     !.bonds = BagRemove(@, bond)]
                    ELSE st1
         IN  IF shape # None /\ shape \notin Range(st.particles)
             THEN st
             ELSE flush_loop_abort(st2, Tail(todo))

RECURSIVE flush_loop(_, _)
\* for shape, bond in self.to_remove
flush_loop(st, todo) ==
    IF todo = <<>> THEN st
    ELSE LET shape == Head(todo)[1]
             bond  == Head(todo)[2]
             st1 == IF shape # None THEN remove_particle(st, shape) ELSE st
             st2 == IF bond # NoBond
                    THEN [st1 EXCEPT !.space_constraints = BagRemove(@, bond),
                                     !.bonds = BagRemove(@, bond)]
                    ELSE st1
         IN  flush_loop(st2, Tail(todo))

\* flush without self.to_remove.clear().
flush_keeps_queue(st) == flush_loop(st, st.to_remove)

flush(st) == [flush_loop(st, st.to_remove) EXCEPT !.to_remove = <<>>]

update_stats(st) ==
    [substrate |-> Len(SelectSeq(st.particles, LAMBDA p : st.ptype[p] = SUBSTRATE)),
     links     |-> Len(SelectSeq(st.particles, LAMBDA p : st.ptype[p] = LINK)),
     bonds     |-> BagCardinality(st.bonds)]

(* ------------------------------------------------------------- the inputs *)

\* What one physics step may leave a body with.  The points lie on the
\* horizontal line through the membrane centre, along which
\* handle_disintegration offsets the substrates it constructs: distances,
\* midpoints and clamped positions of the particles are whole numbers there.
Motions ==
    { [position |-> <<420, 400>>, velocity |-> <<0, 0>>],
      [position |-> <<650, 400>>, velocity |-> <<5, 0>>] }

\* Where setup_simulation may put a substrate: within 200 of the centre.
StartPositions ==
    {m.position : m \in {n \in Motions : distance(Center, n.position) <= BoundaryRadius}}

\* The populations of the starting states: substrates, links, age of the
\* links.  The first is the population that setup_simulation creates; the
\* others are met later in a run: after the first pass (four reactions have
\* fired, one substrate is left), and DisintegrationAge passes after the
\* reactions, when the links are about to become old enough to disintegrate.
StartPopulations ==
    { <<NumSubstrate, 0, 0>>,
      <<1, 4, 1>>,
      <<1, 1, DisintegrationAge>>,
      <<0, 3, DisintegrationAge>> }

(* ------------------------------------------------------------------ Init *)

RECURSIVE place(_, _, _)
\* Append one particle of type t at each position of the sequence ps.
place(st, ps, t) ==
    IF ps = <<>> THEN st
    ELSE place(AddParticle(st, Head(ps), t), Tail(ps), t)

\* setup_simulation: the catalyst at the centre, then the substrates.
setup_simulation(ps) ==
    place(AddParticle(EmptyState, Center, CATALYST), ps, SUBSTRATE)

\* The state after __init__, or a later state of a run between two passes of
\* the loop, in which earlier reactions have left LINK particles that have
\* aged since and have not bonded (a LINK disintegrates only once it is
\* older than DisintegrationAge passes, too many to explore from __init__).
Init ==
    \E pop \in StartPopulations :
    \E ps \in [1..pop[1] -> StartPositions] :
    \E ls \in [1..pop[2] -> StartPositions] :
        LET st0 == setup_simulation(ps)
            st1 == place(st0, ls, LINK)
            st2 == [st1 EXCEPT !.age =
                      [p \in DOMAIN @ |-> IF st1.ptype[p] = LINK THEN pop[3] ELSE 0]]
        IN  /\ particles = st2.particles
            /\ ptype = st2.ptype
            /\ position = st2.position
            /\ velocity = st2.velocity
            /\ age = st2.age
            /\ connections = st2.connections
            /\ space_bodies = st2.space_bodies
            /\ space_sensors = st2.space_sensors
            /\ space_constraints = EmptyBag
            /\ bonds = EmptyBag
            /\ to_remove = <<>>
            /\ removed_calls = st2.removed_calls
            /\ stats = IF pop[2] = 0 THEN [substrate |-> 0, links |-> 0, bonds |-> 0]
                       ELSE update_stats(st2)
            /\ pc = "step"
            /\ tick = 0
            /\ separated = {}
            /\ moved = 0
            /\ created = 0
            /\ hist = NewHist(st2.particles, st2.ptype)

(* --------------------------------------------------------------- actions *)

\* self.space.step(1/60.0): the engine moves a body.
PhysicsMove ==
    /\ pc = "step"
    /\ tick < MaxTicks
    /\ moved < MaxMoves
    /\ \E b \in space_bodies : \E m \in Motions :
         /\ position[b] # m.position
         /\ position' = [position EXCEPT ![b] = m.position]
         /\ velocity' = [velocity EXCEPT ![b] = m.velocity]
    /\ moved' = moved + 1
    /\ UNCHANGED <<particles, ptype, age, connections, space_bodies, space_sensors,
                   space_constraints, bonds, to_remove, stats, pc, tick,
                   separated, created, removed_calls, hist>>

\* The separate callback of the (CATALYST, SUBSTRATE) handler, called by the
\* step for a substrate shape that stops touching the catalyst; a pair
\* separates at most once in a step.
HandleCatalystSubstrate ==
    /\ pc = "step"
    /\ tick < MaxTicks
    /\ \E c \in space_bodies : ptype[c] = CATALYST
    /\ \E substrate_shape \in {b \in space_bodies : ptype[b] = SUBSTRATE} \ separated :
       \E roll \in BOOLEAN :
         /\ separated' = separated \cup {substrate_shape}
         /\ IF roll /\ nearby_substrates(State, substrate_shape) # {}
            THEN /\ created < MaxCreated
                 /\ created' = created + 1
                 /\ \E second_substrate \in nearby_substrates(State, substrate_shape) :
                      /\ Becomes(react(State, substrate_shape, second_substrate))
                      /\ hist' = [hist EXCEPT !.firings = @ + 1]
            ELSE UNCHANGED <<particles, ptype, position, velocity, age, connections,
                             space_bodies, space_sensors, space_constraints, bonds,
                             to_remove, created, removed_calls, hist>>
    /\ UNCHANGED <<stats, pc, tick, moved>>

\* The begin callback of the (sensor, LINK) handler.
HandleLinkDetection ==
    /\ pc = "step"
    /\ tick < MaxTicks
    /\ \E link_sensor \in space_sensors :
       \E link_shape \in {b \in space_bodies : ptype[b] = LINK} :
         Becomes(handle_link_detection(State, link_sensor, link_shape))
    /\ UNCHANGED <<stats, pc, tick, separated, moved, created, hist>>

\* self.space.step returns.
StepReturn ==
    /\ pc = "step"
    /\ tick < MaxTicks
    /\ pc' = "apply_brownian_motion"
    /\ separated' = {}
    /\ UNCHANGED <<particles, ptype, position, velocity, age, connections,
                   space_bodies, space_sensors, space_constraints, bonds, to_remove,
                   stats, tick, moved, created, removed_calls, hist>>

\* apply_brownian_motion, were run to go on to the boundary pass after it.
ApplyBrownianMotionSkips ==
    /\ pc = "apply_brownian_motion"
    /\ pc' = "handle_boundary_collision"
    /\ UNCHANGED <<particles, ptype, position, velocity, age, connections,
                   space_bodies, space_sensors, space_constraints, bonds, to_remove,
                   stats, tick, separated, moved, created, removed_calls, hist>>

\* apply_brownian_motion only submits forces, which the next step integrates.
ApplyBrownianMotion ==
    /\ pc = "apply_brownian_motion"
    /\ pc' = "handle_disintegration"
    /\ UNCHANGED <<particles, ptype, position, velocity, age, connections,
                   space_bodies, space_sensors, space_constraints, bonds, to_remove,
                   stats, tick, separated, moved, created, removed_calls, hist>>

\* The links of the registry that the loop of handle_disintegration finds
\* old enough.
Eligible == {p \in Registry : ptype[p] = LINK /\ old_enough(age[p] + 1)}

HandleDisintegration ==
    /\ pc = "handle_disintegration"
    /\ \E rolls \in SUBSET Eligible :
         /\ created + 2 * Cardinality(rolls) <= MaxCreated
         /\ created' = created + 2 * Cardinality(rolls)
         /\ Becomes(disintegration_loop(State, particles, rolls))
         /\ hist' = [hist EXCEPT
                        !.disintegrated = rolls,
                        !.bonds1 = BagCardinality(bonds),
                        !.connections1 =
                            Cardinality({j \in BagToSet(bonds) : j \cap rolls # {}})]
    /\ pc' = "handle_boundary_collision"
    /\ UNCHANGED <<stats, tick, separated, moved>>

HandleBoundaryCollision ==
    /\ pc = "handle_boundary_collision"
    /\ Becomes(boundary_loop(State, particles))
    /\ pc' = "flush"
    /\ UNCHANGED <<stats, tick, separated, moved, created, hist>>

\* The loop over self.to_remove and self.to_remove.clear().
Flush ==
    /\ pc = "flush"
    /\ Becomes(flush(State))
    /\ pc' = "update_stats"
    /\ UNCHANGED <<stats, tick, separated, moved, created, hist>>

\* update_stats, and the end of the pass.
UpdateStats ==
    /\ pc = "update_stats"
    /\ stats' = update_stats(State)
    /\ tick' = tick + 1
    /\ pc' = "step"
    /\ hist' = NewHist(particles, ptype)
    /\ UNCHANGED <<particles, ptype, position, velocity, age, connections,
                   space_bodies, space_sensors, space_constraints, bonds, to_remove,
                   separated, moved, created, removed_calls>>

Next ==
    \/ PhysicsMove
    \/ HandleCatalystSubstrate
    \/ HandleLinkDetection
    \/ StepReturn
    \/ ApplyBrownianMotion
    \/ HandleDisintegration
    \/ HandleBoundaryCollision
    \/ Flush
    \/ UpdateStats

Spec == Init /\ [][Next]_vars

TypeOK ==
    /\ Registry \subseteq Ids
    /\ pc \in {"step", "apply_brownian_motion", "handle_disintegration",
               "handle_boundary_collision", "flush", "update_stats"}
    /\ tick \in 0..MaxTicks

(* ================================================================ claims *)

Count(t) == Cardinality(OfType(t))
AfterFlush == pc = "update_stats"

IsPrefix(s, t) == Len(s) <= Len(t) /\ SubSeq(t, 1, Len(s)) = s

(* C1: every particle holds at most max_connections connections: a LINK at *)
(* most 2, a SUBSTRATE or CATALYST none.                                   *)
C1_ConnectionsBounded ==
    \A p \in DOMAIN connections :
        BagCardinality(connections[p]) <= MaxConnections(ptype[p])

\* A LINK that holds 2 connections while another LINK, not bonded to it, has
\* room for one more.
C1_Witness ==
    \E p \in OfType(LINK) : \E q \in OfType(LINK) :
        /\ p # q
        /\ BagCardinality(connections[p]) = 2
        /\ BagCardinality(connections[q]) < 2
        /\ ~BagIn(q, connections[p])

(* C2: after the flush of a pass in which k reactions fired (and no LINK   *)
(* disintegrated), the registry holds 2k fewer SUBSTRATE and k more LINK   *)
(* particles than at the start of the pass.                                *)
C2_ReactionConserves ==
    (AfterFlush /\ hist.disintegrated = {}) =>
        /\ Count(SUBSTRATE) = hist.substrates0 - 2 * hist.firings
        /\ Count(LINK) = hist.links0 + hist.firings

(* C3: no substrate is enqueued for removal by two reactions of one pass:  *)
(* no shape occurs twice in the pending queue.                             *)
C3_NoDoubleConsumption ==
    \A i \in 1..Len(to_remove) : \A j \in 1..Len(to_remove) :
        i # j => to_remove[i][1] # to_remove[j][1]

(* C4: after the flush of a pass in which d LINK particles disintegrated   *)
(* (and no reaction fired), the registry holds d fewer LINK and 2d more    *)
(* SUBSTRATE particles than at the start of the pass.                      *)
C4_DisintegrationConserves ==
    (AfterFlush /\ hist.firings = 0) =>
        /\ Count(LINK) = hist.links0 - Cardinality(hist.disintegrated)
        /\ Count(SUBSTRATE) = hist.substrates0 + 2 * Cardinality(hist.disintegrated)

(* C5: after the flush, no joint with a disintegrated LINK as an endpoint  *)
(* is left in self.bonds or in the space, and the number of bonds is the   *)
(* number before the disintegration less the bonds the particles had.      *)
C5_BondsRemoved ==
    AfterFlush =>
        /\ \A p \in hist.disintegrated :
              JointsOf(bonds, p) = {} /\ JointsOf(space_constraints, p) = {}
        /\ hist.disintegrated # {} =>
              BagCardinality(bonds) = hist.bonds1 - hist.connections1

(* C6: after the flush, the bodies in the space are exactly the bodies of  *)
(* the particles of the registry, and the sensors those of its LINKs.      *)
C6_SpaceIsRegistry ==
    AfterFlush =>
        /\ space_bodies = Registry
        /\ space_sensors = OfType(LINK)

(* C7 as stated: while the step runs, the registry, the connections and    *)
(* the bodies, shapes and constraints of the space do not change.          *)
C7_CallbacksOnlyEnqueue ==
    [][pc = "step" =>
         UNCHANGED <<particles, connections, space_bodies, space_sensors,
                     space_constraints>>]_vars

(* C7 amended: while the step runs, nothing is removed: the registry, the  *)
(* pending queue, every connections list, self.bonds and the contents of   *)
(* the space only grow.                                                    *)
C7_CallbacksRemoveNothing ==
    [][pc = "step" =>
         /\ IsPrefix(particles, particles')
         /\ IsPrefix(to_remove, to_remove')
         /\ space_bodies \subseteq space_bodies'
         /\ space_sensors \subseteq space_sensors'
         /\ space_constraints \sqsubseteq space_constraints'
         /\ bonds \sqsubseteq bonds'
         /\ \A p \in DOMAIN connections :
               /\ p \in DOMAIN connections'
               /\ connections[p] \sqsubseteq connections'[p]]_vars

\* The step is running and a reaction has fired in it: the new LINK is in
\* the registry and the substrates are in the pending queue.
C7_Witness ==
    /\ pc = "step"
    /\ hist.firings > 0
    /\ to_remove # <<>>
    /\ \E p \in Registry : ptype[p] = LINK /\ age[p] = 0

(* C8: a flush of a queue in which a removal occurs twice leaves registry  *)
(* and space as the flush of the queue with the repetitions left out, and  *)
(* no particle's body and shapes are removed from the space twice.         *)
RECURSIVE Dedup(_, _)
Dedup(q, seen) ==
    IF q = <<>> THEN <<>>
    ELSE IF Head(q) \in seen THEN Dedup(Tail(q), seen)
    ELSE <<Head(q)>> \o Dedup(Tail(q), seen \cup {Head(q)})

C8_FlushIdempotent ==
    /\ flush(State) = flush([State EXCEPT !.to_remove = Dedup(to_remove, {})])
    /\ \A p \in Ids : removed_calls[p] <= 1

\* A flush has run on a queue in which both substrates of the registry had
\* been enqueued by each of two reactions.
C8_Witness ==
    /\ AfterFlush
    /\ hist.firings = 2
    /\ hist.substrates0 = 2
    /\ created = 2
    /\ Count(SUBSTRATE) = 0
    /\ \E p \in Ids : removed_calls[p] = 1

(* C9: once handle_boundary_collision has run, every body of the           *)
(* simulation is at distance <= 200 from the centre.                       *)
C9_AllInsideMembrane ==
    pc = "flush" =>
        \A b \in space_bodies :
            distance2(Center, position[b]) <= BoundaryRadius * BoundaryRadius

(* C10: delivering the sensor event for a pair of LINKs a second time, in  *)
(* the same or in the swapped roles, changes nothing; no two bonds join    *)
(* the same pair and no particle is twice in another's connections.        *)
C10_BondOnce ==
    /\ \A j \in BagToSet(bonds) : CopiesIn(j, bonds) = 1
    /\ \A j \in BagToSet(space_constraints) : CopiesIn(j, space_constraints) = 1
    /\ \A p \in DOMAIN connections : \A q \in BagToSet(connections[p]) :
          CopiesIn(q, connections[p]) = 1
    /\ pc = "step" =>
          \A p1 \in space_sensors : \A p2 \in OfType(LINK) :
              LET once == handle_link_detection(State, p1, p2)
              IN  /\ handle_link_detection(once, p1, p2) = once
                  /\ handle_link_detection(once, p2, p1) = once

\* The step is running and two LINKs are bonded, each with room for one
\* more connection.
C10_Witness ==
    /\ pc = "step"
    /\ \E p \in OfType(LINK) : \E q \in OfType(LINK) :
          /\ p # q
          /\ BagIn({p, q}, bonds)
          /\ BagCardinality(connections[p]) = 1
          /\ BagCardinality(connections[q]) = 1

(* C11: the phases of a pass run in the order step, apply_brownian_motion, *)
(* handle_disintegration, handle_boundary_collision, flush, update_stats,  *)
(* each once per pass: the phase changes only to its successor, a pass is  *)
(* counted only by update_stats, and while the forces, the disintegration  *)
(* and the boundary pass run no queued removal has been applied (every     *)
(* registered shape of the queue is still in the space).                   *)
PhaseOrder ==
    { <<"step", "apply_brownian_motion">>,
      <<"apply_brownian_motion", "handle_disintegration">>,
      <<"handle_disintegration", "handle_boundary_collision">>,
      <<"handle_boundary_collision", "flush">>,
      <<"flush", "update_stats">>,
      <<"update_stats", "step">> }

C11_PhaseOrder ==
    [][/\ pc' # pc => <<pc, pc'>> \in PhaseOrder
       /\ tick' # tick => (pc = "update_stats" /\ tick' = tick + 1)
       /\ pc \in {"apply_brownian_motion", "handle_disintegration",
                   "handle_boundary_collision"} =>
             /\ pc' # pc
             /\ \A i \in 1..Len(to_remove) :
                   to_remove[i][1] \in Registry => to_remove[i][1] \in space_bodies
             /\ Registry \subseteq Range(particles')]_vars

\* A pass is complete, and in the next one the disintegration pass is
\* about to run while removals enqueued by the step are pending.
C11_Witness ==
    /\ tick >= 1
    /\ pc = "handle_disintegration"
    /\ to_remove # <<>>

(* C12: a sensor event whose guard fails changes nothing: if p1 = p2, or   *)
(* p1 or p2 already holds 2 connections, or p2 is already in p1's          *)
(* connections, handle_link_detection leaves every connections list, the   *)
(* bond list and the constraints of the space (and all the rest) as they   *)
(* were.                                                                   *)
C12_FailedGuardNoChange ==
    pc = "step" =>
        \A p1 \in space_sensors : \A p2 \in {b \in space_bodies : ptype[b] = LINK} :
            (\/ p1 = p2
             \/ BagCardinality(connections[p1]) >= 2
             \/ BagCardinality(connections[p2]) >= 2
             \/ BagIn(p2, connections[p1]))
            => LET after == handle_link_detection(State, p1, p2)
               IN  /\ after.connections = connections
                   /\ after.bonds = bonds
                   /\ after.space_constraints = space_constraints
                   /\ after = State

\* The step is running; one LINK holds 2 connections, a second is bonded to
\* it, and a third, not bonded to it, has room: events for each failing
\* case of the guard can be delivered.
C12_Witness ==
    /\ pc = "step"
    /\ \E p \in OfType(LINK) : \E q \in OfType(LINK) : \E r \in OfType(LINK) :
          /\ BagCardinality(connections[p]) = 2
          /\ BagIn(q, connections[p])
          /\ r # p
          /\ ~BagIn(r, connections[p])
          /\ BagCardinality(connections[r]) < 2

(* C13: the pending queue is consumed by the flush of the pass that filled *)
(* it and at no other time: outside the flush no particle leaves the       *)
(* registry and no entry leaves the queue, the flush applies every entry   *)
(* and leaves the queue empty, and the queue is empty at the end of every  *)
(* pass.                                                                   *)
QueueShapes == {to_remove[i][1] : i \in 1..Len(to_remove)}

C13_QueueConsumedByFlush ==
    [][/\ pc # "flush" =>
             /\ IsPrefix(particles, particles')
             /\ IsPrefix(to_remove, to_remove')
       /\ pc = "flush" =>
             /\ to_remove' = <<>>
             /\ Range(particles') = Registry \ QueueShapes
       /\ pc = "update_stats" => (to_remove = <<>> /\ to_remove' = <<>>)]_vars

\* A flush has consumed a queue filled by a reaction of this pass: the
\* queue is empty and the registry has lost substrates.
C13_Witness ==
    /\ AfterFlush
    /\ to_remove = <<>>
    /\ hist.firings > 0
    /\ Count(SUBSTRATE) < hist.substrates0

(* C14: a removal whose shape is the shape of no particle of the registry  *)
(* (already removed, or never registered) is skipped: remove_particle      *)
(* leaves the state as it was, and the flush goes on to the remaining      *)
(* entries, so that it removes every registered shape of the queue from    *)
(* the registry and from the space, and nothing else.                      *)
C14_MissingShapeSkipped ==
    /\ \A shape \in Ids \ Registry : remove_particle(State, shape) = State
    /\ LET after == flush(State)
       IN  /\ Range(after.particles) = Registry \ QueueShapes
           /\ after.space_bodies = space_bodies \ (Registry \cap QueueShapes)
           /\ after.to_remove = <<>>

\* A flush has run on the queue of a single reaction whose event substrate
\* was never registered: the neighbour enqueued after it is gone from the
\* registry, which has lost one substrate, not two.
C14_Witness ==
    /\ AfterFlush
    /\ hist.firings = 1
    /\ hist.disintegrated = {}
    /\ Count(SUBSTRATE) = hist.substrates0 - 1
    /\ \E p \in space_bodies \ Registry : ptype[p] = SUBSTRATE

(* C15 as stated: handle_disintegration adds 1 to the age of every LINK of *)
(* the registry and nothing else changes an age; a LINK is enqueued only   *)
(* if its new age exceeds 1000; a LINK that is not enqueued stays in the   *)
(* registry through the flush, and its connections are unchanged.          *)
NewlyEnqueued == {to_remove'[i][1] : i \in (Len(to_remove) + 1)..Len(to_remove')}

AgeRule ==
    /\ pc = "handle_disintegration" =>
          /\ \A p \in Registry :
                age'[p] = IF ptype[p] = LINK THEN age[p] + 1 ELSE age[p]
          /\ \A p \in NewlyEnqueued :
                ptype[p] = LINK /\ age[p] + 1 > DisintegrationAge
          /\ Registry = Range(particles')
    /\ pc # "handle_disintegration" =>
          \A p \in DOMAIN age \cap DOMAIN age' : age'[p] = age[p]
    /\ pc = "flush" =>
          \A p \in OfType(LINK) \ QueueShapes :
                p \in Range(particles') /\ connections'[p] = connections[p]

C15_AgeAndRoll ==
    [][/\ AgeRule
       /\ pc = "handle_disintegration" =>
             \A p \in OfType(LINK) \ NewlyEnqueued :
                connections'[p] = connections[p]]_vars

(* C15 amended: as above, except that a LINK that is not enqueued loses    *)
(* from its connections the LINKs that disintegrate in the same pass, and  *)
(* keeps the others.                                                       *)
C15_AgeAndRollAmended ==
    [][/\ AgeRule
       /\ pc = "handle_disintegration" =>
             \A p \in OfType(LINK) \ NewlyEnqueued : \A q \in Ids :
                CopiesIn(q, connections'[p]) =
                    IF q \in NewlyEnqueued THEN 0 ELSE CopiesIn(q, connections[p])]_vars

\* handle_disintegration has run: a LINK has disintegrated and a LINK that
\* was bonded to it, of the same age, has not.
C15_Witness ==
    /\ pc = "handle_boundary_collision"
    /\ hist.disintegrated # {}
    /\ hist.connections1 > 0
    /\ \E p \in OfType(LINK) \ hist.disintegrated :
          /\ age[p] = DisintegrationAge + 1
          /\ \E q \in hist.disintegrated : BagIn(p, connections[q])

(* C16: the counts that update_stats stores describe the state after the   *)
(* flush: the SUBSTRATE particles of the registry, its LINK particles, and *)
(* the bonds between live LINKs, that is the unordered pairs of particles  *)
(* of the registry that are in each other's connections.                   *)
LivePairs ==
    {pair \in SUBSET Registry :
        /\ Cardinality(pair) = 2
        /\ \A p \in pair : \A q \in pair \ {p} : BagIn(q, connections[p])}

C16_StatsDescribeLiveState ==
    [][pc = "update_stats" =>
          /\ stats'.substrate = Count(SUBSTRATE)
          /\ stats'.links = Count(LINK)
          /\ stats'.bonds = Cardinality(LivePairs)]_vars

(* C17: handle_boundary_collision puts every particle of the registry at   *)
(* distance d >= 200 - radius from the centre at distance exactly          *)
(* 200 - radius on the same ray from the centre and negates both           *)
(* components of its velocity; a particle with d < 200 - radius keeps its  *)
(* position and its velocity.                                              *)
SameRay(a, b) ==
    LET ax == a[1] - Center[1]
        ay == a[2] - Center[2]
        bx == b[1] - Center[1]
        by == b[2] - Center[2]
    IN  ax * by - ay * bx = 0 /\ ax * bx + ay * by > 0

C17_ClampExact ==
    [][pc = "handle_boundary_collision" =>
          \A p \in Registry :
             LET r == 200 - Radius(ptype[p])
             IN  IF distance2(Center, position[p]) >= r * r
                 THEN /\ distance2(Center, position'[p]) = r * r
                      /\ SameRay(position[p], position'[p])
                      /\ velocity'[p][1] = 0 - velocity[p][1]
                      /\ velocity'[p][2] = 0 - velocity[p][2]
                 ELSE /\ position'[p] = position[p]
                      /\ velocity'[p] = velocity[p]]_vars

\* handle_boundary_collision has run on a particle of radius 8 that the
\* step had left at distance 250 with velocity <<5, 0>>: it is at distance
\* 192 on the same ray, with velocity <<-5, 0>>.
C17_Witness ==
    /\ pc = "flush"
    /\ moved > 0
    /\ \E p \in Registry :
          /\ ptype[p] # CATALYST
          /\ position[p] = <<592, 400>>
          /\ velocity[p] = <<-5, 0>>

(* C18: a separation event changes the registry, the pending queue or the *)
(* space only by firing: when no other SUBSTRATE of the registry lies at   *)
(* distance < 40 from the event substrate (or the roll fails) they are all *)
(* unchanged; a firing appends to the registry exactly one new particle, a *)
(* LINK at the midpoint of the event substrate and a neighbour that is a   *)
(* SUBSTRATE of the registry, different from the event substrate and at    *)
(* distance < 40 from it, and enqueues the two.                            *)
Neighbours(s) ==
    {n \in Registry :
        /\ ptype[n] = SUBSTRATE
        /\ n # s
        /\ distance2(position[s], position[n]) < 40 * 40}

Fires(s, n) ==
    LET link == Cardinality(Ids) + 1
    IN  /\ particles' = Append(particles, link)
        /\ ptype' = ptype @@ (link :> LINK)
        /\ 2 * position'[link][1] = position[s][1] + position[n][1]
        /\ 2 * position'[link][2] = position[s][2] + position[n][2]
        /\ space_bodies' = space_bodies \cup {link}
        /\ space_sensors' = space_sensors \cup {link}
        /\ to_remove' = to_remove \o << <<s, NoBond>>, <<n, NoBond>> >>
        /\ hist'.firings = hist.firings + 1

C18_ReactionFrame ==
    [][(pc = "step" /\ separated' # separated /\ pc' = "step") =>
          \E s \in separated' \ separated :
             /\ separated' = separated \cup {s}
             /\ UNCHANGED <<space_constraints, bonds>>
             /\ \A p \in DOMAIN connections : connections'[p] = connections[p]
             /\ \/ /\ UNCHANGED <<particles, ptype, to_remove, space_bodies,
                                     space_sensors>>
                    /\ hist'.firings = hist.firings
                 \/ \E n \in Neighbours(s) : Fires(s, n)
             /\ Neighbours(s) = {} =>
                   UNCHANGED <<particles, ptype, to_remove, space_bodies,
                               space_sensors>>]_vars

\* The step is running and a reaction has fired for an event substrate
\* with a neighbour at another position: the new LINK lies between them.
C18_Witness ==
    /\ pc = "step"
    /\ hist.firings = 1
    /\ Len(to_remove) = 2
    /\ position[to_remove[1][1]] # position[to_remove[2][1]]
    /\ \E l \in OfType(LINK) :
          /\ age[l] = 0
          /\ 2 * position[l][1] = position[to_remove[1][1]][1] + position[to_remove[2][1]][1]
          /\ 2 * position[l][2] = position[to_remove[1][1]][2] + position[to_remove[2][1]][2]

(* C19: at the end of every pass the number of SUBSTRATE particles of the  *)
(* registry plus twice the number of its LINK particles is what it was at  *)
(* the start of the pass (hence, pass after pass, the initial value), and  *)
(* the registry holds exactly one CATALYST.                                *)
C19_MaterialConserved ==
    /\ Count(CATALYST) = 1
    /\ AfterFlush =>
          Count(SUBSTRATE) + 2 * Count(LINK) = hist.substrates0 + 2 * hist.links0

(* C20: at the end of every pass the connections of the particles of the   *)
(* registry are symmetric, no particle is in its own connections, and      *)
(* every member of a connections list is a LINK of the registry.           *)
C20_BondGraphWellFormed ==
    (AfterFlush \/ pc = "step") =>
        \A p \in Registry : \A q \in BagToSet(connections[p]) :
            /\ q # p
            /\ q \in OfType(LINK)
            /\ BagIn(p, connections[q])

\* A flush has removed a LINK that disintegrated while bonded, and two
\* LINKs of the registry are still bonded to each other.
C20_Witness ==
    /\ AfterFlush
    /\ hist.disintegrated # {}
    /\ hist.connections1 > 0
    /\ hist.disintegrated \cap Registry = {}
    /\ \E p \in OfType(LINK) : connections[p] # EmptyBag

====
